---- MODULE Spec2Model ----
(***************************************************************************)
(* Call Session Orchestrator of the acquisitions chatbot.                  *)
(*                                                                         *)
(*   data/store.py            Lead / Callback / CallEvent tables           *)
(*   llm/openai_client.py     call_llm_text and its keyword fallback       *)
(*   llm/vanessa.py           VanessaBrain, the turn-based orchestrator    *)
(*   llm/realtime_openai.py   OpenAIRealtimeBridge, the streaming bridge   *)
(*   transport/twilio_quart.py  media_stream, the telephony handler        *)
(*                                                                         *)
(* Python strings are sequences of one-character strings, so that          *)
(* str.lower, str.strip and the substring test are computed, not assumed.  *)
(* A Python value is [t |-> "str", v |-> chars] or None; a dict or a       *)
(* keyword-argument list is a function from the keys present to values.    *)
(***************************************************************************)
EXTENDS Integers, Sequences, FiniteSets, TLC

(* ------------------------------------------------------------------ *)
(* Python values                                                      *)
(* ------------------------------------------------------------------ *)

None == [t |-> "none", v |-> <<>>]
Str(s) == [t |-> "str", v |-> s]
Empty == Str(<<>>)
\* a JSON number other than 0, by its digits
Num(digits) == [t |-> "int", v |-> digits]

\* bool(x) of a str, a non-zero number or None
Truthy(x) == x.t = "int" \/ (x.t = "str" /\ x.v # <<>>)
\* x or d
Or(x, d) == IF Truthy(x) THEN x ELSE d
\* {}
EmptyDict == [k \in {} |-> None]
\* dict.get(key, default)
Get(d, key, default) == IF key \in DOMAIN d THEN d[key] ELSE default

Whitespace == {" ", "\t", "\n"}

UpperToLower ==
  [A |-> "a", B |-> "b", C |-> "c", D |-> "d", E |-> "e", F |-> "f", G |-> "g",
   H |-> "h", I |-> "i", J |-> "j", K |-> "k", L |-> "l", M |-> "m", N |-> "n",
   O |-> "o", P |-> "p", Q |-> "q", R |-> "r", S |-> "s", T |-> "t", U |-> "u",
   V |-> "v", W |-> "w", X |-> "x", Y |-> "y", Z |-> "z"]

\* str.lower()
Lower(s) == [i \in DOMAIN s |-> IF s[i] \in DOMAIN UpperToLower THEN UpperToLower[s[i]] ELSE s[i]]

RECURSIVE LStrip(_)
LStrip(s) == IF s # <<>> /\ Head(s) \in Whitespace THEN LStrip(Tail(s)) ELSE s

RECURSIVE RStrip(_)
RStrip(s) == IF s # <<>> /\ s[Len(s)] \in Whitespace THEN RStrip(SubSeq(s, 1, Len(s) - 1)) ELSE s

\* str.strip()
Strip(s) == RStrip(LStrip(s))

\* k == s
Contains_whole(s, k) == s = k

\* k in s, for strings
Contains(s, k) == \E i \in 1..(Len(s) - Len(k) + 1) : SubSeq(s, i, i + Len(k) - 1) = k

\* seq[-n:]
\* the slice that keeps the whole list
LastN_whole(seq, n) == seq

LastN(seq, n) == IF Len(seq) <= n THEN seq ELSE SubSeq(seq, Len(seq) - n + 1, Len(seq))

(* ------------------------------------------------------------------ *)
(* String literals of the program and of the inputs                   *)
(* ------------------------------------------------------------------ *)

S_dnc == <<"d","n","c">>
S_no == <<"n","o">>
S_later == <<"l","a","t","e","r">>
S_yes == <<"y","e","s">>
S_maybe == <<"m","a","y","b","e">>
S_unknown == <<"u","n","k","n","o","w","n">>
S_DNC_padded == <<" ","D","N","C"," ">>
S_Maybe_cap == <<"M","a","y","b","e">>
S_blank == <<" ">>
S_350_380k == <<"3","5","0","-","3","8","0","k">>
S_400k == <<"4","0","0","k">>
S_370k == <<"3","7","0","k">>
S_30_45_days == <<"3","0","-","4","5"," ","d","a","y","s">>
S_needs_paint == <<"n","e","e","d","s"," ","p","a","i","n","t">>
S_owner == <<"o","w","n","e","r">>
S_after_5pm == <<"a","f","t","e","r"," ","5","p","m">>
S_next_business_day == <<"n","e","x","t"," ","b","u","s","i","n","e","s","s"," ","d","a","y">>
S_at_work == <<"a","t"," ","w","o","r","k">>
S_timebox_reason == <<"n","o","_","c","l","e","a","r","_","i","n","t","e","r","e","s","t","_","w","i","t","h","i","n","_","t","i","m","e","b","o","x">>

U_not_selling == <<"i","'","m"," ","n","o","t"," ","s","e","l","l","i","n","g",","," ","r","e","m","o","v","e"," ","m","e">>
U_maybe == <<"m","a","y","b","e">>
U_370k == <<"3","7","0","k">>
U_30_45_days == <<"3","0","-","4","5"," ","d","a","y","s">>
U_hello == <<"h","e","l","l","o","?">>

(* ------------------------------------------------------------------ *)
(* State                                                              *)
(* ------------------------------------------------------------------ *)

VARIABLES
  leads,          \* table Lead, rows in insertion order
  callbacks,      \* table Callback
  events,         \* table CallEvent (append-only)
  llm_available,  \* openai_client._client is not None
  state,          \* VanessaBrain.state : ConversationState
  ret,            \* what the last ingest_user_text call returned
  llm_calls,      \* the call_llm_text invocations, in order
  ncalls,         \* number of ingest_user_text calls made
  upserts,        \* the keyword arguments of the direct upsert_lead calls, in order
  txns,           \* the upsert_lead calls of concurrent workers: where each is, and what its select returned
  h,              \* media_stream: where the handler is, and its locals call_sid and phone
  bridge,         \* media_stream's local `bridge`: the OpenAIRealtimeBridge it holds, if any
  sessions,       \* the reasoning sessions opened by websockets.connect, with what was sent on each
  drains,         \* the _drain_ai_events calls started, "poll" or "final", in order
  transfers,      \* the on_transfer invocations (call sids), in order
  nframes,        \* telephony frames received on the connection
  nai             \* reasoning-session events received on the connection

brainVars == <<state, ret, llm_calls, ncalls>>
streamVars == <<h, bridge, sessions, drains, transfers, nframes, nai>>
storeVars == <<upserts, txns>>
vars == <<leads, callbacks, events, llm_available, storeVars, brainVars, streamVars>>

(* ------------------------------------------------------------------ *)
(* data/store.py                                                      *)
(* ------------------------------------------------------------------ *)

LeadFields == {"interest", "price_range", "timing", "condition", "owner_status"}

\* Lead(phone=phone, **fields): the column defaults of models.py, then the arguments
NewLead(id, phone, fields) ==
  [id |-> id, phone |-> phone,
   interest |-> Or(Get(fields, "interest", Empty), Empty),
   price_range |-> Or(Get(fields, "price_range", Empty), Empty),
   timing |-> Or(Get(fields, "timing", Empty), Empty),
   condition |-> Or(Get(fields, "condition", Empty), Empty),
   owner_status |-> Or(Get(fields, "owner_status", Empty), Empty),
   qualified |-> FALSE]

\* index of the first row with this phone (select ... .first()), 0 when there is none
FirstByPhone(rows, phone) ==
  IF \E i \in DOMAIN rows : rows[i].phone = phone
  THEN CHOOSE i \in DOMAIN rows : rows[i].phone = phone /\ \A j \in 1..(i - 1) : rows[j].phone # phone
  ELSE 0

save_event(db, event_type, payload, call_sid) ==
  [db EXCEPT !.events = Append(@, [call_sid |-> call_sid, event_type |-> event_type, payload |-> payload])]

\* only None is skipped
Overwrites_blank(v) == v # None

\* v not in (None, "")
Overwrites(v) == v # None /\ v # Empty

\* a merge that also clears the qualified flag
MergeRow_unqualify(row, fields) ==
  [k \in DOMAIN row |-> IF k = "qualified" THEN FALSE
                        ELSE IF k \in DOMAIN fields /\ Overwrites(fields[k]) THEN fields[k] ELSE row[k]]

\* the row after the merge loop of upsert_lead
MergeRow(row, fields) ==
  [k \in DOMAIN row |-> IF k \in DOMAIN fields /\ Overwrites(fields[k]) THEN fields[k] ELSE row[k]]

upsert_lead(db, phone, fields) ==
  LET i == FirstByPhone(db.leads, phone) IN
  IF i = 0
  THEN [db EXCEPT !.leads = Append(@, NewLead(Len(@) + 1, phone, fields))]
  ELSE [db EXCEPT !.leads[i] = MergeRow(@, fields)]

\* the flag set on the object and never committed
mark_qualified_uncommitted(db, lead_id, is_qualified) == db

mark_qualified(db, lead_id, is_qualified) ==
  IF lead_id \in DOMAIN db.leads
  THEN [db EXCEPT !.leads[lead_id].qualified = is_qualified]
  ELSE db

\* the window stored as passed, without the default
create_callback_nodefault(db, lead_id, window, notes) ==
  [db EXCEPT !.callbacks = Append(@, [id |-> Len(@) + 1, lead_id |-> lead_id,
                                      window |-> window, notes |-> Or(notes, Empty)])]

\* a create_callback that skips a row the lead already has for the same window
create_callback_guarded(db, lead_id, window, notes) ==
  IF \E i \in DOMAIN db.callbacks : db.callbacks[i].lead_id = lead_id /\ db.callbacks[i].window = window
  THEN db
  ELSE create_callback_nodefault(db, lead_id, window, notes)

create_callback(db, lead_id, window, notes) ==
  [db EXCEPT !.callbacks = Append(@, [id |-> Len(@) + 1, lead_id |-> lead_id,
                                      window |-> Or(window, Str(S_next_business_day)),
                                      notes |-> Or(notes, Empty)])]

\* the row create_callback has just added
LastCallback(db) == db.callbacks[Len(db.callbacks)]

find_lead_by_phone(db, phone) == FirstByPhone(db.leads, phone)

\* the workers (threads or processes) that may run upsert_lead at the same time on one database
Workers == {1, 2}
\* pc: "idle" outside upsert_lead, "selected" between its select (line 20) and its commit (line 29);
\* found is the row the select returned (0: none), ncommits the calls the worker has finished
IdleTxn == [pc |-> "idle", phone |-> <<>>, fields |-> EmptyDict, found |-> 0, ncommits |-> 0]
IdleTxns == [w \in Workers |-> IdleTxn]

(* ------------------------------------------------------------------ *)
(* llm/openai_client.py                                               *)
(* ------------------------------------------------------------------ *)

\* A backend output text, by what json.loads makes of it: "object" (a JSON object,
\* obj its members), "non_object" (valid JSON of another type), "invalid" (not JSON).
JsonObject(obj) == [kind |-> "object", obj |-> obj]
JsonOther(kind) == [kind |-> kind, obj |-> EmptyDict]
\* _client.responses.create raises instead of answering (the backend is unreachable)
BackendRaises == JsonOther("raises")

NoResponseId == [t |-> "none", n |-> 0]
ResponseId(n) == [t |-> "id", n |-> n]

FallbackDnc ==
  JsonObject([interest |-> Str(S_dnc), price_range |-> Empty, timing |-> Empty, condition |-> Empty,
              owner_status |-> Str(S_unknown), callback_window |-> Empty, notes |-> Empty])
FallbackLater ==
  JsonObject([interest |-> Str(S_later), callback_window |-> Str(<<"t","o","d","a","y"," ","4","-","6","p","m">>), price_range |-> Empty,
              timing |-> Empty, condition |-> Empty, owner_status |-> Str(S_unknown), notes |-> Empty])
FallbackMaybe ==
  JsonObject([interest |-> Str(S_maybe), price_range |-> Str(S_350_380k), timing |-> Str(<<"3","0","-","6","0"," ","d","a","y","s">>),
              condition |-> Str(S_needs_paint), owner_status |-> Str(S_owner),
              callback_window |-> Empty, notes |-> Empty])
FallbackUnknown ==
  JsonObject([interest |-> Str(S_unknown), price_range |-> Empty, timing |-> Empty, condition |-> Empty,
              owner_status |-> Str(S_unknown), callback_window |-> Empty, notes |-> Empty])

\* "remove", "do not call", "not selling", "stop calling"
DncKeywords ==
  { <<"r","e","m","o","v","e">>, <<"d","o"," ","n","o","t"," ","c","a","l","l">>,
    <<"n","o","t"," ","s","e","l","l","i","n","g">>, <<"s","t","o","p"," ","c","a","l","l","i","n","g">> }
\* "later", "busy", "another time", "tomorrow"
LaterKeywords ==
  { <<"l","a","t","e","r">>, <<"b","u","s","y">>, <<"a","n","o","t","h","e","r"," ","t","i","m","e">>,
    <<"t","o","m","o","r","r","o","w">> }
\* "yes", "maybe", "might sell", "consider"
MaybeKeywords ==
  { <<"y","e","s">>, <<"m","a","y","b","e">>, <<"m","i","g","h","t"," ","s","e","l","l">>,
    <<"c","o","n","s","i","d","e","r">> }

\* the rules with the later keywords tried before the dnc keywords
fallback_later_first(messages) ==
  LET latest == Lower(IF messages # <<>> THEN messages[Len(messages)].content ELSE <<>>) IN
  IF \E x \in LaterKeywords : Contains(latest, x) THEN FallbackLater
  ELSE IF \E x \in DncKeywords : Contains(latest, x) THEN FallbackDnc
  ELSE IF \E x \in MaybeKeywords : Contains(latest, x) THEN FallbackMaybe
  ELSE FallbackUnknown

fallback(messages) ==
  LET latest == Lower(IF messages # <<>> THEN messages[Len(messages)].content ELSE <<>>) IN
  IF \E x \in DncKeywords : Contains(latest, x) THEN FallbackDnc
  ELSE IF \E x \in LaterKeywords : Contains(latest, x) THEN FallbackLater
  ELSE IF \E x \in MaybeKeywords : Contains(latest, x) THEN FallbackMaybe
  ELSE FallbackUnknown

\* (output_text, response_id), or the exception of responses.create, which nothing here catches;
\* reply is what the Responses API does when configured
call_llm_text(available, messages, previous_response_id, reply) ==
  IF ~available
  THEN [raised |-> FALSE, output_text |-> fallback(messages), response_id |-> NoResponseId]
  ELSE IF reply.output_text = BackendRaises
  THEN [raised |-> TRUE, output_text |-> reply.output_text, response_id |-> NoResponseId]
  ELSE [raised |-> FALSE, output_text |-> reply.output_text, response_id |-> reply.id]

(* ------------------------------------------------------------------ *)
(* llm/vanessa.py                                                     *)
(* ------------------------------------------------------------------ *)

Timebox == 90
HistoryWindow == 6

ConversationState(phone, call_sid) ==
  [phone |-> phone, call_sid |-> call_sid, history |-> <<>>, elapsed_sec |-> 0,
   closed |-> FALSE, outcome |-> "None", last_response_id |-> NoResponseId]

NoOutcome == [type |-> "None", message |-> "", callback_id |-> 0, window |-> Empty]
MsgDnc == "Understood-removing you from our list. Have a great day."
MsgCallback == "We'll call you back then. Thank you!"
MsgTransfer == "Let me connect you with my acquisitions lead now for numbers."
MsgTimeout == "Thanks for your time-no worries, we'll remove you from our list."

\* the dict _lead_snapshot returns; {} when the phone has no row
lead_snapshot(db, phone) ==
  LET i == find_lead_by_phone(db, phone) IN
  IF i = 0 THEN EmptyDict
  ELSE [k \in {"id", "phone", "interest", "price_range", "timing", "condition", "owner_status", "qualified"}
          |-> db.leads[i][k]]

update_lead(db, phone, analysis) ==
  upsert_lead(db, phone,
    [interest |-> Get(analysis, "interest", Empty),
     price_range |-> Get(analysis, "price_range", Empty),
     timing |-> Get(analysis, "timing", Empty),
     condition |-> Get(analysis, "condition", Empty),
     owner_status |-> Get(analysis, "owner_status", Empty)])

\* the interest compared as the backend spelled it
NormInterest_raw(analysis) == Or(Get(analysis, "interest", None), Empty).v

\* (analysis.get("interest") or "").lower().strip()
NormInterest(analysis) == Strip(Lower(Or(Get(analysis, "interest", None), Empty).v))
\* the field tested without trimming
FieldOk_nostrip(analysis, key) == Or(Get(analysis, key, None), Empty).v # <<>>

\* .lower() or .strip() called on a truthy value that is not a str
RaisesAttributeError(analysis) ==
  \E key \in {"interest", "price_range", "timing"} :
    LET x == Get(analysis, key, None) IN Truthy(x) /\ x.t # "str"

\* bool((analysis.get(key) or "").strip())
FieldOk(analysis, key) == Strip(Or(Get(analysis, key, None), Empty).v) # <<>>

\* the timebox compared strictly
TimedOut_strict(st) == st.elapsed_sec > Timebox

\* self.state.elapsed_sec >= 90
TimedOut(st) == st.elapsed_sec >= Timebox

\* [db, outcome]: the tables after the branch's writes, and the dict returned (NoOutcome for None)
decide_and_apply(db, st, analysis, lead_id) ==
  LET interest == NormInterest(analysis)
      price_ok == FieldOk(analysis, "price_range")
      time_ok == FieldOk(analysis, "timing")
  IN
  IF interest \in {S_dnc, S_no} THEN
    [db |-> save_event(db, "OUTCOME_DNC", [lead_id |-> lead_id, reason |-> Get(analysis, "notes", Empty)], st.call_sid),
     outcome |-> [NoOutcome EXCEPT !.type = "dnc", !.message = MsgDnc]]
  ELSE IF interest = S_later THEN
    LET db1 == create_callback(db, lead_id, Get(analysis, "callback_window", Str(S_next_business_day)),
                               Get(analysis, "notes", Empty))
        cb == LastCallback(db1)
    IN [db |-> save_event(db1, "OUTCOME_CALLBACK",
                          [lead_id |-> lead_id, callback_id |-> cb.id, window |-> cb.window], st.call_sid),
        outcome |-> [type |-> "callback", message |-> MsgCallback, callback_id |-> cb.id, window |-> cb.window]]
  ELSE IF interest \in {S_yes, S_maybe} /\ (price_ok \/ time_ok \/ TimedOut(st)) THEN
    [db |-> save_event(mark_qualified(db, lead_id, TRUE), "OUTCOME_TRANSFER", [lead_id |-> lead_id], st.call_sid),
     outcome |-> [NoOutcome EXCEPT !.type = "transfer", !.message = MsgTransfer]]
  ELSE IF TimedOut(st) THEN
    [db |-> save_event(db, "OUTCOME_DNC", [lead_id |-> lead_id, reason |-> Str(S_timebox_reason)], st.call_sid),
     outcome |-> [NoOutcome EXCEPT !.type = "dnc", !.message = MsgTimeout]]
  ELSE [db |-> db, outcome |-> NoOutcome]

\* the record json.loads and the except branch leave in `analysis`
\* a substitute record with every field empty
UnknownRecord_blank ==
  [interest |-> Empty, price_range |-> Empty, timing |-> Empty, condition |-> Empty,
   owner_status |-> Empty, callback_window |-> Empty, notes |-> Empty]

UnknownRecord ==
  [interest |-> Str(S_unknown), price_range |-> Empty, timing |-> Empty, condition |-> Empty,
   owner_status |-> Str(S_unknown), callback_window |-> Empty, notes |-> Empty]

ParseAnalysis(output_text) == IF output_text.kind = "object" THEN output_text.obj ELSE UnknownRecord

NoReturn == [status |-> "none", outcome |-> NoOutcome, lead |-> EmptyDict,
             analysis |-> EmptyDict, elapsed_sec |-> 0, stored |-> "None"]

\* the call closed without its outcome tag
Close_untagged(st, outcome_type) == [st EXCEPT !.closed = TRUE]

\* self.state.outcome = outcome["type"]; self.state.closed = True
Close(st, outcome_type) == [st EXCEPT !.outcome = outcome_type, !.closed = TRUE]

\* ingest_user_text past the closed check: one open turn
OpenTurn(text, approx_seconds, reply_text) ==
    LET db0 == [leads |-> leads, callbacks |-> callbacks, events |-> events]
        \* _append_user
        history1 == Append(state.history, [role |-> "user", content |-> text])
        db1 == save_event(db0, "TURN", [from |-> "user", text |-> text, elapsed |-> state.elapsed_sec],
                          state.call_sid)
        elapsed1 == state.elapsed_sec + approx_seconds
        messages == LastN(history1, HistoryWindow)
        r == call_llm_text(llm_available, messages, state.last_response_id,
                           [output_text |-> reply_text, id |-> ResponseId(Len(llm_calls) + 1)])
        db2 == save_event(db1, "RAW_LLM", [text |-> r.output_text, response_id |-> r.response_id],
                          state.call_sid)
        analysis == ParseAnalysis(r.output_text)
        db3 == update_lead(db2, state.phone, analysis)
        lead_info == lead_snapshot(db3, state.phone)
        lead_id == Get(lead_info, "id", 0)
        st1 == [state EXCEPT !.history = history1, !.elapsed_sec = elapsed1,
                             !.last_response_id = r.response_id]
        d == IF lead_id # 0 THEN decide_and_apply(db3, st1, analysis, lead_id)
             ELSE [db |-> db3, outcome |-> NoOutcome]
        closing == d.outcome # NoOutcome
    IN
    /\ llm_calls' = Append(llm_calls, [messages |-> messages, previous_response_id |-> state.last_response_id,
                                       raised |-> r.raised])
    /\ IF r.raised THEN
         \* the exception of call_llm_text leaves ingest_user_text at line 80
         /\ state' = [state EXCEPT !.history = history1, !.elapsed_sec = elapsed1]
         /\ leads' = db1.leads
         /\ callbacks' = db1.callbacks
         /\ events' = db1.events
         /\ ret' = [NoReturn EXCEPT !.status = "APIError", !.elapsed_sec = elapsed1]
       ELSE IF lead_id # 0 /\ RaisesAttributeError(analysis) THEN
         \* the exception of _decide_and_apply leaves ingest_user_text at line 99
         /\ state' = st1
         /\ leads' = db3.leads
         /\ callbacks' = db3.callbacks
         /\ events' = db3.events
         /\ ret' = [NoReturn EXCEPT !.status = "AttributeError", !.analysis = analysis, !.elapsed_sec = elapsed1]
       ELSE
         /\ state' = IF closing THEN Close(st1, d.outcome.type) ELSE st1
         /\ leads' = d.db.leads
         /\ callbacks' = d.db.callbacks
         /\ events' = d.db.events
         /\ ret' = [status |-> "ok",
                    lead |-> IF closing THEN lead_snapshot(d.db, state.phone) ELSE lead_info,
                    analysis |-> analysis,
                    outcome |-> IF closing THEN d.outcome ELSE [NoOutcome EXCEPT !.type = "continue"],
                    elapsed_sec |-> elapsed1,
                    stored |-> "None"]

\* the turn run without looking at state.closed
ingest_user_text_unguarded(text, approx_seconds, reply_text) == OpenTurn(text, approx_seconds, reply_text)

ingest_user_text(text, approx_seconds, reply_text) ==
  IF state.closed THEN
    /\ ret' = [NoReturn EXCEPT !.status = "closed", !.stored = state.outcome]
    /\ UNCHANGED <<leads, callbacks, events, state, llm_calls>>
  ELSE OpenTurn(text, approx_seconds, reply_text)

(* ------------------------------------------------------------------ *)
(* transport/twilio_quart.py and llm/realtime_openai.py: the objects  *)
(* ------------------------------------------------------------------ *)

\* media_stream before its first receive: call_sid = None, phone = None, bridge = None
\* (None and "" are both the empty sequence here: every use is `call_sid or ""`, `phone or ""`).
\* pc is the handler's position, final the argument of the running _drain_ai_events,
\* stops the stop frames handed to the bridge, inflight whether a CancelledError is propagating,
\* tick the parity of the reasoning-session events received beyond MaxAiEvents.
HandlerStart ==
  [pc |-> "receive", call_sid |-> <<>>, phone |-> <<>>, final |-> FALSE, stops |-> 0, inflight |-> FALSE,
   tick |-> FALSE]
NoBridge == [exists |-> FALSE, call_sid |-> <<>>, phone |-> <<>>, ai_ws |-> 0, qualified |-> FALSE]

\* OpenAIRealtimeBridge.__init__
OpenAIRealtimeBridge(call_sid, phone) ==
  [exists |-> TRUE, call_sid |-> call_sid, phone |-> phone, ai_ws |-> 0, qualified |-> FALSE]

StreamIdle ==
  /\ h = HandlerStart
  /\ bridge = NoBridge
  /\ sessions = <<>>
  /\ drains = <<>>
  /\ transfers = <<>>
  /\ nframes = 0
  /\ nai = 0

(* ------------------------------------------------------------------ *)
(* The turn-based call: one VanessaBrain and its caller               *)
(* ------------------------------------------------------------------ *)

MaxCalls == 3

Phone == <<"+","1","5","5","5","0","0","0","1">>
OtherPhone == <<"+","1","5","5","5","0","0","0","2">>
CallSid == <<"S","I","M","-","0","0","0","1">>

\* the Lead table before the call: empty, or holding another caller and this caller from an earlier call
PriorLeadTables ==
  { <<>>,
    << NewLead(1, OtherPhone, [interest |-> Str(S_later)]),
       [NewLead(2, Phone, [interest |-> Str(S_maybe), price_range |-> Str(S_350_380k)]) EXCEPT !.qualified = TRUE] >> }

ApproxSeconds == {8, 45}

\* among them "call me later today after 5pm" and "REMOVE me"
Utterances ==
  { U_not_selling, U_maybe, U_370k, U_30_45_days, U_hello,
    <<"c","a","l","l"," ","m","e"," ","l","a","t","e","r"," ","t","o","d","a","y"," ","a","f","t","e","r"," ","5","p","m">>,
    <<"R","E","M","O","V","E"," ","m","e">> }

\* what a configured backend may answer
LlmReplies ==
  { FallbackUnknown,
    JsonOther("invalid"),
    JsonObject([interest |-> Str(S_maybe)]),
    JsonObject([interest |-> Empty, price_range |-> Str(S_370k)]),
    JsonObject([interest |-> Str(S_yes), price_range |-> Str(S_blank), timing |-> None]),
    JsonObject([interest |-> Str(S_maybe), timing |-> Str(S_30_45_days)]),
    JsonObject([interest |-> Str(S_Maybe_cap), price_range |-> Str(S_370k), timing |-> Str(S_30_45_days),
                condition |-> Str(S_needs_paint), owner_status |-> Str(S_owner),
                callback_window |-> Empty, notes |-> Empty]),
    JsonObject([interest |-> Str(S_later), callback_window |-> Str(S_after_5pm), notes |-> Str(S_at_work),
                price_range |-> Str(S_370k)]),
    JsonObject([interest |-> Str(S_later)]),
    JsonObject([interest |-> Str(S_later), callback_window |-> Empty, notes |-> None]),
    JsonObject([interest |-> Str(S_later), callback_window |-> None]),
    JsonObject([interest |-> Str(S_later), callback_window |-> Str(S_blank)]),
    JsonObject([interest |-> Str(S_dnc)]),
    JsonObject([interest |-> Str(S_DNC_padded), price_range |-> Str(S_370k), timing |-> Str(S_30_45_days),
                callback_window |-> Str(S_after_5pm), notes |-> Str(S_at_work)]),
    JsonObject([interest |-> Str(S_no), price_range |-> Str(S_blank)]) }

\* VanessaBrain.__init__, on one of the prior tables
Init ==
  /\ llm_available \in BOOLEAN
  /\ \E prior \in PriorLeadTables :
       leads = upsert_lead([leads |-> prior, callbacks |-> <<>>, events |-> <<>>], Phone, EmptyDict).leads
  /\ callbacks = <<>>
  /\ events = <<>>
  /\ state = ConversationState(Phone, CallSid)
  /\ ret = NoReturn
  /\ llm_calls = <<>>
  /\ ncalls = 0
  /\ upserts = <<>>
  /\ txns = IdleTxns
  /\ StreamIdle

\* an unconfigured backend ignores the reply; a configured one ignores nothing the model varies in the text
Texts == IF llm_available THEN {U_hello} ELSE Utterances
Replies == IF llm_available THEN LlmReplies ELSE {JsonOther("invalid")}

Ingest ==
  /\ ncalls < MaxCalls
  /\ \E text \in Texts, approx_seconds \in ApproxSeconds, reply \in Replies :
       ingest_user_text(text, approx_seconds, reply)
  /\ ncalls' = ncalls + 1
  /\ UNCHANGED <<llm_available, storeVars, streamVars>>

Next == Ingest

Spec == Init /\ [][Next]_vars

(* ------------------------------------------------------------------ *)
(* One turn over every shape of record: the decision policy's inputs  *)
(* ------------------------------------------------------------------ *)

\* marks a key the record does not hold
Absent == [t |-> "absent", v |-> <<>>]
MkDict(c) == [k \in {x \in DOMAIN c : c[x] # Absent} |-> c[k]]

PolicyChoices ==
  [interest : {Absent, None, Empty, Str(S_unknown), Str(S_dnc), Str(S_DNC_padded), Str(S_no),
               Str(S_later), Str(S_yes), Str(S_Maybe_cap)},
   price_range : {Absent, None, Empty, Str(S_blank), Str(S_370k)},
   timing : {Absent, Str(S_blank), Str(S_30_45_days)},
   callback_window : {Absent, Empty, Str(S_after_5pm)},
   notes : {Absent, Str(S_at_work)}]

\* approx_seconds that end the turn below, just below, at and above the timebox
PolicySeconds == {8, 89, 90, 120}

InitPolicy == Init /\ llm_available

PolicyTurn ==
  /\ ncalls = 0
  /\ \E approx_seconds \in PolicySeconds, c \in PolicyChoices :
       ingest_user_text(U_hello, approx_seconds, JsonObject(MkDict(c)))
  /\ ncalls' = ncalls + 1
  /\ UNCHANGED <<llm_available, storeVars, streamVars>>

NextPolicy == PolicyTurn

SpecPolicy == InitPolicy /\ [][NextPolicy]_vars

(* ------------------------------------------------------------------ *)
(* Direct upsert_lead calls on a phone that has a Lead                *)
(* ------------------------------------------------------------------ *)

MaxUpserts == 3

StoreTable ==
  << NewLead(1, OtherPhone, [interest |-> Str(S_later)]),
     NewLead(2, Phone, [interest |-> Str(S_maybe), price_range |-> Str(S_350_380k)]) >>

UpsertArgs ==
  { MkDict(c) : c \in [price_range : {Absent, None, Empty, Str(S_350_380k), Str(S_400k)},
                       interest : {Absent, Str(S_dnc)},
                       timing : {Absent, Str(S_blank)}] }

InitStore ==
  /\ leads = StoreTable
  /\ callbacks = <<>>
  /\ events = <<>>
  /\ llm_available = FALSE
  /\ state = ConversationState(Phone, CallSid)
  /\ ret = NoReturn
  /\ llm_calls = <<>>
  /\ ncalls = 0
  /\ upserts = <<>>
  /\ txns = IdleTxns
  /\ StreamIdle

Upsert ==
  /\ Len(upserts) < MaxUpserts
  /\ \E fields \in UpsertArgs :
       /\ leads' = upsert_lead([leads |-> leads, callbacks |-> callbacks, events |-> events], Phone, fields).leads
       /\ upserts' = Append(upserts, fields)
       /\ UNCHANGED txns
  /\ UNCHANGED <<callbacks, events, llm_available, brainVars, streamVars>>

NextStore == Upsert

SpecStore == InitStore /\ [][NextStore]_vars

(* ------------------------------------------------------------------ *)
(* upsert_lead called by two workers on one database                  *)
(* ------------------------------------------------------------------ *)

MaxCommits == 2

RacePhones == {Phone, OtherPhone}
RaceArgs == { EmptyDict, [interest |-> Str(S_maybe), price_range |-> Empty] }

\* the Lead table before the calls: another caller's row, none for Phone
RaceTable == << NewLead(1, OtherPhone, [interest |-> Str(S_later)]) >>

InitRace ==
  /\ leads = RaceTable
  /\ callbacks = <<>>
  /\ events = <<>>
  /\ llm_available = FALSE
  /\ state = ConversationState(Phone, CallSid)
  /\ ret = NoReturn
  /\ llm_calls = <<>>
  /\ ncalls = 0
  /\ upserts = <<>>
  /\ txns = IdleTxns
  /\ StreamIdle

\* worker w enters upsert_lead and runs its select
UpsertSelect(w) ==
  /\ txns[w].pc = "idle" /\ txns[w].ncommits < MaxCommits
  /\ \E phone \in RacePhones, fields \in RaceArgs :
       txns' = [txns EXCEPT ![w] = [@ EXCEPT !.pc = "selected", !.phone = phone, !.fields = fields,
                                              !.found = FirstByPhone(leads, phone)]]
  /\ UNCHANGED <<leads, callbacks, events, llm_available, upserts, brainVars, streamVars>>

\* worker w adds a row when its select found none, merges into the row it found otherwise, and commits
UpsertCommit(w) ==
  /\ txns[w].pc = "selected"
  /\ leads' = IF txns[w].found = 0
              THEN Append(leads, NewLead(Len(leads) + 1, txns[w].phone, txns[w].fields))
              ELSE [leads EXCEPT ![txns[w].found] = MergeRow(@, txns[w].fields)]
  /\ txns' = [txns EXCEPT ![w] = [IdleTxn EXCEPT !.ncommits = txns[w].ncommits + 1]]
  /\ UNCHANGED <<callbacks, events, llm_available, upserts, brainVars, streamVars>>

NextRace == \E w \in Workers : UpsertSelect(w) \/ UpsertCommit(w)

SpecRace == InitRace /\ [][NextRace]_vars

(* ------------------------------------------------------------------ *)
(* A configured backend that fails or answers outside the schema      *)
(* ------------------------------------------------------------------ *)

\* responses.create raises, or answers with: text that is not JSON, JSON that is not an object,
\* the all-unknown record, an object missing fields, objects with a number where a string
\* belongs, an object whose interest is outside the vocabulary
BackendReplies ==
  { BackendRaises,
    JsonOther("invalid"),
    JsonOther("non_object"),
    FallbackUnknown,
    JsonObject([interest |-> Str(S_maybe)]),
    JsonObject([interest |-> Num(<<"5">>)]),
    JsonObject([interest |-> Str(S_yes), price_range |-> Num(<<"3","7","0","0","0","0">>)]),
    JsonObject([UnknownRecord EXCEPT !.interest = Str(<<"p","e","r","h","a","p","s">>)]) }

IngestBackend ==
  /\ ncalls < MaxCalls
  /\ \E approx_seconds \in ApproxSeconds, reply \in BackendReplies :
       ingest_user_text(U_hello, approx_seconds, reply)
  /\ ncalls' = ncalls + 1
  /\ UNCHANGED <<llm_available, storeVars, streamVars>>

NextBackend == IngestBackend

SpecBackend == InitPolicy /\ [][NextBackend]_vars

(* ------------------------------------------------------------------ *)
(* A long call: more turns than the history window holds              *)
(* ------------------------------------------------------------------ *)

MaxTurns == 7

\* the caller alternates between two utterances; each turn takes the default 8 seconds
HistoryTexts == {U_hello, U_maybe}
HistoryReplies == IF llm_available THEN {FallbackUnknown, JsonObject([interest |-> Str(S_dnc)])}
                  ELSE {JsonOther("invalid")}

IngestHistory ==
  /\ ncalls < MaxTurns
  /\ \E text \in HistoryTexts, reply \in HistoryReplies : ingest_user_text(text, 8, reply)
  /\ ncalls' = ncalls + 1
  /\ UNCHANGED <<llm_available, storeVars, streamVars>>

NextHistory == IngestHistory

SpecHistory == Init /\ [][NextHistory]_vars

(* ------------------------------------------------------------------ *)
(* The streaming call: one telephony connection served by             *)
(* media_stream and the OpenAIRealtimeBridge it creates               *)
(* ------------------------------------------------------------------ *)

\* media_stream is modelled from transport/twilio_quart.py; transport/twilio_interface.py has the
\* same loop, except and finally blocks, and raises on a start object without "callSid".

MaxFrames == 3
MaxAiEvents == 3
MaxInputs == 5

\* the connection delivers at most MaxFrames frames and MaxAiEvents reasoning-session events,
\* MaxInputs of both together
MoreFrames == nframes < MaxFrames /\ nframes + nai < MaxInputs
MoreAiEvents == nai < MaxAiEvents /\ nframes + nai < MaxInputs

StreamSid == <<"C","A","1">>

\* the "start" objects of start frames: callSid and from present, or both missing
StartInfos ==
  { [callSid |-> Str(StreamSid), from |-> Str(Phone)],
    EmptyDict }

\* the arguments of a lead_detect tool call
ToolArgs ==
  { [interest |-> Str(S_maybe), price_range |-> Str(S_370k), timing |-> Str(S_30_45_days)],
    [interest |-> Str(S_Maybe_cap)],
    [interest |-> Str(S_later), callback_window |-> Str(S_after_5pm), notes |-> Str(S_at_work)],
    [interest |-> Str(S_later), price_range |-> Empty],
    [interest |-> Str(S_dnc)] }

Db == [leads |-> leads, callbacks |-> callbacks, events |-> events]

SetDb(db) ==
  /\ leads' = db.leads
  /\ callbacks' = db.callbacks
  /\ events' = db.events

\* websockets.connect: a new open session on which nothing has been sent
Connect(ss) == Append(ss, [open |-> TRUE, sent |-> <<>>])

\* ai_ws.send on session ws
Send(ss, ws, m) == [ss EXCEPT ![ws].sent = Append(@, m)]

\* the session opened and left without its configuration
start_unconfigured(ss) == Connect(ss)

\* OpenAIRealtimeBridge.start: connect, then send session.update on the new session
start(ss) == Send(Connect(ss), Len(ss) + 1, "session.update")

\* the except branch of media_stream, which leads to its finally block
Except_retry(db) ==
  /\ SetDb(save_event(db, "STREAM_ERROR", EmptyDict, h.call_sid))
  /\ h' = [h EXCEPT !.pc = "receive", !.final = FALSE]

Except(db) ==
  /\ SetDb(save_event(db, "STREAM_ERROR", EmptyDict, h.call_sid))
  /\ h' = [h EXCEPT !.pc = "finally", !.final = FALSE]

\* a frame has been received
Received == nframes' = nframes + 1

\* `start` frame: media_stream creates and starts a bridge, then forwards the frame to it
FrameStart ==
  /\ h.pc = "receive" /\ MoreFrames
  /\ Received
  /\ \E info \in StartInfos, fault \in {"none", "connect", "configure", "create"} :
       LET call_sid == Or(Get(info, "callSid", None), Empty).v
           phone == Or(Get(info, "from", Empty), Empty).v
           db1 == save_event(Db, "STREAM_START", [from |-> phone], call_sid)
           b == OpenAIRealtimeBridge(call_sid, phone)
           ws == Len(sessions) + 1
           db2 == save_event(db1, "CALL_START", [info |-> info], b.call_sid)
       IN
       IF fault = "connect" THEN
         /\ bridge' = b
         /\ sessions' = sessions
         /\ SetDb(save_event(db1, "STREAM_ERROR", EmptyDict, call_sid))
         /\ h' = [h EXCEPT !.pc = "finally", !.call_sid = call_sid, !.phone = phone]
       ELSE IF fault = "configure" THEN
         /\ bridge' = [b EXCEPT !.ai_ws = ws]
         /\ sessions' = Connect(sessions)
         /\ SetDb(save_event(db1, "STREAM_ERROR", EmptyDict, call_sid))
         /\ h' = [h EXCEPT !.pc = "finally", !.call_sid = call_sid, !.phone = phone]
       ELSE IF fault = "create" THEN
         /\ bridge' = [b EXCEPT !.ai_ws = ws]
         /\ sessions' = start(sessions)
         /\ SetDb(save_event(db2, "STREAM_ERROR", EmptyDict, call_sid))
         /\ h' = [h EXCEPT !.pc = "finally", !.call_sid = call_sid, !.phone = phone]
       ELSE
         /\ bridge' = [b EXCEPT !.ai_ws = ws]
         /\ sessions' = Send(start(sessions), ws, "input_audio_buffer.create")
         /\ SetDb(db2)
         /\ h' = [h EXCEPT !.call_sid = call_sid, !.phone = phone]
  /\ UNCHANGED <<drains, transfers, nai, llm_available, storeVars, brainVars>>

\* the response requested before the audio is appended
MediaSends_reversed(ss, ws) == Send(Send(ss, ws, "response.create"), ws, "input_audio_buffer.append")

\* the two sends of the media branch
MediaSends(ss, ws) == Send(Send(ss, ws, "input_audio_buffer.append"), ws, "response.create")

\* a handler that forwards every frame, bridge or not
Forwarded_always(b) == TRUE

\* `if bridge:` of media_stream: the frame is handed to the bridge when there is one
Forwarded(b) == b.exists

\* `media` frame: two sends, then a polling drain
FrameMedia ==
  /\ h.pc = "receive" /\ MoreFrames
  /\ Received
  /\ IF ~Forwarded(bridge) THEN UNCHANGED <<h, sessions, drains, leads, callbacks, events>>
     ELSE \E fault \in {"none", "append", "response"} :
       IF fault = "append" THEN
         /\ Except(Db)
         /\ UNCHANGED <<sessions, drains>>
       ELSE IF fault = "response" THEN
         /\ Except(Db)
         /\ sessions' = Send(sessions, bridge.ai_ws, "input_audio_buffer.append")
         /\ UNCHANGED drains
       ELSE
         /\ sessions' = MediaSends(sessions, bridge.ai_ws)
         /\ drains' = Append(drains, "poll")
         /\ h' = [h EXCEPT !.pc = "drain", !.final = FALSE]
         /\ UNCHANGED <<leads, callbacks, events>>
  /\ UNCHANGED <<bridge, transfers, nai, llm_available, storeVars, brainVars>>

\* `stop` frame: the commit send, then the final drain
FrameStop ==
  /\ h.pc = "receive" /\ MoreFrames
  /\ Received
  /\ IF ~Forwarded(bridge) THEN UNCHANGED <<h, sessions, drains, leads, callbacks, events>>
     ELSE \E fault \in {"none", "commit"} :
       IF fault = "commit" THEN
         /\ SetDb(save_event(Db, "STREAM_ERROR", EmptyDict, h.call_sid))
         /\ h' = [h EXCEPT !.pc = "finally", !.stops = @ + 1]
         /\ UNCHANGED <<sessions, drains>>
       ELSE
         /\ sessions' = Send(sessions, bridge.ai_ws, "input_audio_buffer.commit")
         /\ drains' = Append(drains, "final")
         /\ h' = [h EXCEPT !.pc = "drain", !.final = TRUE, !.stops = @ + 1]
         /\ UNCHANGED <<leads, callbacks, events>>
  /\ UNCHANGED <<bridge, transfers, nai, llm_available, storeVars, brainVars>>

\* a frame of any other event: forwarded when there is a bridge, and ignored by it
FrameOther ==
  /\ h.pc = "receive" /\ MoreFrames
  /\ Received
  /\ UNCHANGED <<h, bridge, sessions, drains, transfers, nai, leads, callbacks, events,
                 llm_available, storeVars, brainVars>>

\* a frame json.loads rejects, or a start frame without its "start" object
FrameMalformed ==
  /\ h.pc = "receive" /\ MoreFrames
  /\ Received
  /\ Except(Db)
  /\ UNCHANGED <<bridge, sessions, drains, transfers, nai, llm_available, storeVars, brainVars>>

\* websocket.receive returns None
ReceiveNone ==
  /\ h.pc = "receive"
  /\ h' = [h EXCEPT !.pc = "finally"]
  /\ UNCHANGED <<bridge, sessions, drains, transfers, nframes, nai, leads, callbacks, events,
                 llm_available, storeVars, brainVars>>

\* websocket.receive raises an Exception (the connection broke)
ReceiveRaises ==
  /\ h.pc = "receive"
  /\ Except(Db)
  /\ UNCHANGED <<bridge, sessions, drains, transfers, nframes, nai, llm_available, storeVars, brainVars>>

\* the handler task is cancelled while it awaits a frame: CancelledError is not an Exception
ReceiveCancelled ==
  /\ h.pc = "receive"
  /\ h' = [h EXCEPT !.pc = "finally", !.inflight = TRUE]
  /\ UNCHANGED <<bridge, sessions, drains, transfers, nframes, nai, leads, callbacks, events,
                 llm_available, storeVars, brainVars>>

\* _drain_ai_events returns to handle_twilio_event, which returns to the receive loop
DrainReturn(db) ==
  /\ SetDb(IF h.final THEN save_event(db, "CALL_STOP", [info |-> EmptyDict], bridge.call_sid) ELSE db)
  /\ h' = [h EXCEPT !.pc = "receive", !.final = FALSE]

\* a reasoning-session event has been received
AiReceived == nai' = nai + 1

\* response.output_text.delta, or an event of a type no branch names: the loop goes on
AiDelta ==
  /\ h.pc = "drain" /\ MoreAiEvents
  /\ AiReceived
  /\ UNCHANGED <<h, bridge, sessions, drains, transfers, nframes, leads, callbacks, events,
                 llm_available, storeVars, brainVars>>

\* the lead_detect branch of a response.function_call event
lead_detect(db, b, args) ==
  LET db1 == save_event(db, "AI_TOOL_CALL", [name |-> "lead_detect", args |-> args], b.call_sid)
      db2 == upsert_lead(db1, b.phone,
                         [k \in {"interest", "price_range", "timing", "condition", "owner_status"} |->
                            Get(args, k, Empty)])
      lead_id == FirstByPhone(db2.leads, b.phone)
      qualifies == Get(args, "interest", None) \in {Str(S_yes), Str(S_maybe)}
      db3 == IF qualifies THEN mark_qualified(db2, lead_id, TRUE) ELSE db2
      calls_back == Get(args, "interest", None) = Str(S_later) /\ Truthy(Get(args, "callback_window", None))
      db4 == IF calls_back
             THEN save_event(create_callback(db3, lead_id, args.callback_window, Get(args, "notes", Empty)),
                             "OUTCOME_CALLBACK", [window |-> args.callback_window], b.call_sid)
             ELSE db3
  IN [db |-> db4, qualified |-> b.qualified \/ qualifies]

AiLeadDetect ==
  /\ h.pc = "drain" /\ MoreAiEvents
  /\ AiReceived
  /\ \E args \in ToolArgs :
       LET r == lead_detect(Db, bridge, args) IN
       /\ SetDb(r.db)
       /\ bridge' = [bridge EXCEPT !.qualified = r.qualified]
  /\ UNCHANGED <<h, sessions, drains, transfers, nframes, llm_available, storeVars, brainVars>>

\* the transfer taken on consent alone
MayTransfer_consent_only(consent, b) == consent

\* args.get("consent") and self.qualified
MayTransfer(consent, b) == consent /\ b.qualified

\* the request_transfer branch; on_transfer (do_transfer) may raise
AiRequestTransfer ==
  /\ h.pc = "drain" /\ MoreAiEvents
  /\ AiReceived
  /\ \E consent \in BOOLEAN, fault \in {"none", "redirect"} :
       LET db1 == save_event(Db, "AI_TOOL_CALL",
                             [name |-> "request_transfer", args |-> [consent |-> consent]], bridge.call_sid)
           db2 == save_event(db1, "OUTCOME_TRANSFER", [consent |-> TRUE], bridge.call_sid)
       IN
       IF ~MayTransfer(consent, bridge) THEN
         /\ SetDb(db1)
         /\ UNCHANGED <<h, transfers>>
       ELSE IF fault = "redirect" THEN
         /\ Except(db2)
         /\ UNCHANGED transfers
       ELSE
         /\ SetDb(db2)
         /\ transfers' = Append(transfers, bridge.call_sid)
         /\ UNCHANGED h
  /\ UNCHANGED <<bridge, sessions, drains, nframes, llm_available, storeVars, brainVars>>

\* a response.function_call naming a function no branch handles
AiOtherTool ==
  /\ h.pc = "drain" /\ MoreAiEvents
  /\ AiReceived
  /\ SetDb(save_event(Db, "AI_TOOL_CALL", [name |-> "other", args |-> EmptyDict], bridge.call_sid))
  /\ UNCHANGED <<h, bridge, sessions, drains, transfers, nframes, llm_available, storeVars, brainVars>>

\* response.completed: break
AiCompleted ==
  /\ h.pc = "drain" /\ MoreAiEvents
  /\ AiReceived
  /\ DrainReturn(Db)
  /\ UNCHANGED <<bridge, sessions, drains, transfers, nframes, llm_available, storeVars, brainVars>>

\* response.error: logged, then break
AiError ==
  /\ h.pc = "drain" /\ MoreAiEvents
  /\ AiReceived
  /\ DrainReturn(save_event(Db, "AI_ERROR", EmptyDict, bridge.call_sid))
  /\ UNCHANGED <<bridge, sessions, drains, transfers, nframes, llm_available, storeVars, brainVars>>

\* nothing arrives within the bound: asyncio.TimeoutError, return
AiTimeout ==
  /\ h.pc = "drain"
  /\ DrainReturn(Db)
  /\ UNCHANGED <<bridge, sessions, drains, transfers, nframes, nai, llm_available, storeVars, brainVars>>

\* recv raises something else (the session broke), or the event is not JSON or has no "name"
AiRaises ==
  /\ h.pc = "drain"
  /\ Except(Db)
  /\ UNCHANGED <<bridge, sessions, drains, transfers, nframes, nai, llm_available, storeVars, brainVars>>

\* OpenAIRealtimeBridge.close on session ws
close(ss, ws) == IF ws = 0 THEN ss ELSE [ss EXCEPT ![ws].open = FALSE]

\* the finally block of media_stream; ai_ws.close may raise, and then nothing after it runs
Teardown ==
  /\ h.pc = "finally"
  /\ \E fault \in {"none", "close"} :
       IF bridge.exists /\ bridge.ai_ws # 0 /\ fault = "close" THEN
         /\ h' = [h EXCEPT !.pc = "done", !.inflight = TRUE]
         /\ UNCHANGED <<sessions, leads, callbacks, events>>
       ELSE
         /\ sessions' = IF bridge.exists THEN close(sessions, bridge.ai_ws) ELSE sessions
         /\ SetDb(save_event(Db, "STREAM_CLOSED", EmptyDict, h.call_sid))
         /\ h' = [h EXCEPT !.pc = "done"]
  /\ UNCHANGED <<bridge, drains, transfers, nframes, nai, llm_available, storeVars, brainVars>>

\* the Lead table before the connection: another caller's row only
StreamLeadTable == << NewLead(1, OtherPhone, [interest |-> Str(S_later)]) >>

InitStream ==
  /\ leads = StreamLeadTable
  /\ callbacks = <<>>
  /\ events = <<>>
  /\ llm_available = FALSE
  /\ state = ConversationState(Phone, CallSid)
  /\ ret = NoReturn
  /\ llm_calls = <<>>
  /\ ncalls = 0
  /\ upserts = <<>>
  /\ txns = IdleTxns
  /\ StreamIdle

NextStream ==
  \/ FrameStart \/ FrameMedia \/ FrameStop \/ FrameOther \/ FrameMalformed
  \/ ReceiveNone \/ ReceiveRaises \/ ReceiveCancelled
  \/ AiDelta \/ AiLeadDetect \/ AiRequestTransfer \/ AiOtherTool
  \/ AiCompleted \/ AiError \/ AiTimeout \/ AiRaises
  \/ Teardown

SpecStream == InitStream /\ [][NextStream]_vars

\* a reasoning session that never stops emitting: one more event of a type the loop passes over
\* arrives within the timeout of recv, the counted events being used up
AiDeltaAgain ==
  /\ h.pc = "drain" /\ ~MoreAiEvents
  /\ h' = [h EXCEPT !.tick = ~@]
  /\ UNCHANGED <<bridge, sessions, drains, transfers, nframes, nai, leads, callbacks, events,
                 llm_available, storeVars, brainVars>>

NextStreamLive == NextStream \/ AiDeltaAgain

\* the handler task keeps being scheduled; what the two peers send, and when, is theirs to choose
SpecStreamLive == InitStream /\ [][NextStreamLive]_vars /\ WF_vars(NextStreamLive)

(* ------------------------------------------------------------------ *)
(* call_llm_text on its own, the backend unconfigured                 *)
(* ------------------------------------------------------------------ *)

\* "REMOVE me later", "yes, later", "maybe tomorrow", "I'm busy", "Yes", "hello?",
\* "do not call, maybe", "Not Selling", "", "might sell another time",
\* "stop calling yes please", "we'd consider it"
FallbackTexts ==
  { <<"R","E","M","O","V","E"," ","m","e"," ","l","a","t","e","r">>,
    <<"y","e","s",","," ","l","a","t","e","r">>,
    <<"m","a","y","b","e"," ","t","o","m","o","r","r","o","w">>,
    <<"I","'","m"," ","b","u","s","y">>,
    <<"Y","e","s">>,
    <<"h","e","l","l","o","?">>,
    <<"d","o"," ","n","o","t"," ","c","a","l","l",","," ","m","a","y","b","e">>,
    <<"N","o","t"," ","S","e","l","l","i","n","g">>,
    <<>>,
    <<"m","i","g","h","t"," ","s","e","l","l"," ","a","n","o","t","h","e","r"," ","t","i","m","e">>,
    <<"s","t","o","p"," ","c","a","l","l","i","n","g"," ","y","e","s"," ","p","l","e","a","s","e">>,
    <<"w","e","'","d"," ","c","o","n","s","i","d","e","r"," ","i","t">> }

\* message lists of up to two entries
FallbackMessages ==
  {<<>>} \cup {<<[role |-> "user", content |-> t]>> : t \in FallbackTexts}
         \cup {<<[role |-> "user", content |-> t1], [role |-> "user", content |-> t2]>> :
                  t1 \in FallbackTexts, t2 \in FallbackTexts}

InitFallback == InitStream

\* one call of call_llm_text; llm_calls holds the latest call and what it returned
FallbackCall ==
  /\ \E messages \in FallbackMessages, previous_response_id \in {NoResponseId, ResponseId(1)} :
       LET r == call_llm_text(llm_available, messages, previous_response_id,
                              [output_text |-> BackendRaises, id |-> ResponseId(2)])
       IN llm_calls' = << [messages |-> messages, previous_response_id |-> previous_response_id,
                           raised |-> r.raised, output_text |-> r.output_text,
                           response_id |-> r.response_id] >>
  /\ UNCHANGED <<leads, callbacks, events, llm_available, state, ret, ncalls, storeVars, streamVars>>

NextFallback == FallbackCall

SpecFallback == InitFallback /\ [][NextFallback]_vars

(* ------------------------------------------------------------------ *)
(* Properties                                                         *)
(* ------------------------------------------------------------------ *)

\* the caller's Lead row
LeadRow(rows) == rows[FirstByPhone(rows, Phone)]

CountEvents(evs, event_type) == Cardinality({i \in DOMAIN evs : evs[i].event_type = event_type})

\* an ingest_user_text call made on an open call
OpenTurnStep == ~state.closed /\ ncalls' = ncalls + 1

\* the interest of a record, lower-cased and trimmed
Interest(rec) == Strip(Lower(IF "interest" \in DOMAIN rec /\ rec.interest.t = "str" THEN rec.interest.v ELSE <<>>))

\* the field is present and is a string other than ""
NonEmpty(rec, key) == key \in DOMAIN rec /\ rec[key].t = "str" /\ rec[key].v # <<>>

\* the field is present and is a string with a character that is not white space
NonBlank(rec, key) == key \in DOMAIN rec /\ rec[key].t = "str" /\ \E i \in DOMAIN rec[key].v : rec[key].v[i] \notin Whitespace

\* C1: on an open turn whose record has interest dnc or no (lower-cased, trimmed), the outcome is dnc
\* whatever price_range, timing, callback_window, notes and elapsed_sec are; the call closes as dnc,
\* no Callback row is added and the Lead's qualified flag is left as it was.
C1_DncPriority ==
  [][ (OpenTurnStep /\ Interest(ret'.analysis) \in {S_dnc, S_no})
      => /\ ret'.outcome.type = "dnc"
         /\ state'.closed /\ state'.outcome = "dnc"
         /\ callbacks' = callbacks
         /\ LeadRow(leads').qualified = LeadRow(leads).qualified ]_vars

\* a padded upper-case DNC with a price, a callback window and the timebox reached: closed as dnc
C1_Witness ==
  /\ ret.status = "ok"
  /\ Get(ret.analysis, "interest", None) = Str(S_DNC_padded)
  /\ NonBlank(ret.analysis, "price_range")
  /\ NonEmpty(ret.analysis, "callback_window")
  /\ ret.elapsed_sec >= Timebox
  /\ ret.outcome.type = "dnc"
  /\ ~LeadRow(leads).qualified

\* C2: once a call has returned a non-continue outcome it is closed with that outcome as its tag, and
\* every later ingest_user_text call, whatever its text and approx_seconds, returns the stored tag,
\* makes no call_llm_text call and leaves history, elapsed_sec, last_response_id (the whole
\* ConversationState), the Lead table, the Callback table and the CallEvent log unchanged.
C2_IdempotentAfterClose ==
  [][ /\ (OpenTurnStep /\ ret'.outcome.type # "continue")
         => (state'.closed /\ state'.outcome = ret'.outcome.type)
      /\ (state.closed /\ ncalls' = ncalls + 1)
         => /\ ret'.status = "closed"
            /\ ret'.stored = state.outcome
            /\ ret'.stored \in {"transfer", "callback", "dnc"}
            /\ UNCHANGED <<state, leads, callbacks, events, llm_calls>> ]_vars

\* a call made after the close, answered from the stored tag
C2_Witness == state.closed /\ ret.status = "closed" /\ ret.stored = "callback" /\ ncalls = 3

\* when a turn returns continue under the original wording: elapsed_sec < 90, interest not dnc/no, not
\* later, and not (yes or maybe with a price_range or timing other than "")
ContinueWhenNonEmpty(rec, elapsed) ==
  /\ elapsed < Timebox
  /\ Interest(rec) \notin {S_dnc, S_no, S_later}
  /\ ~(Interest(rec) \in {S_yes, S_maybe} /\ (NonEmpty(rec, "price_range") \/ NonEmpty(rec, "timing")))

\* the same with price_range and timing counted only when they hold a non-blank character
ContinueWhenNonBlank(rec, elapsed) ==
  /\ elapsed < Timebox
  /\ Interest(rec) \notin {S_dnc, S_no, S_later}
  /\ ~(Interest(rec) \in {S_yes, S_maybe} /\ (NonBlank(rec, "price_range") \/ NonBlank(rec, "timing")))

\* C4 as stated: a turn returns continue exactly when elapsed_sec < 90 and interest is not dnc/no, not
\* later and not (yes or maybe with a non-empty price_range or timing).
C4_ContinueIffNonEmpty ==
  ret.status = "ok" => ((ret.outcome.type = "continue") <=> ContinueWhenNonEmpty(ret.analysis, ret.elapsed_sec))

\* C4, amended: a turn returns continue, and leaves the call open, exactly when elapsed_sec < 90 and
\* interest (lower-cased, trimmed) is not dnc/no, not later and not (yes or maybe with a price_range
\* or timing that is non-empty after trimming); interest unknown below 90 gives continue and no turn
\* ending at or above 90 gives continue.
C4_ContinueIffNonBlank ==
  ret.status = "ok" =>
    /\ (ret.outcome.type = "continue") <=> ContinueWhenNonBlank(ret.analysis, ret.elapsed_sec)
    /\ (ret.outcome.type = "continue") <=> ~state.closed
    /\ (Interest(ret.analysis) = S_unknown /\ ret.elapsed_sec < Timebox) => ret.outcome.type = "continue"
    /\ ret.elapsed_sec >= Timebox => ret.outcome.type # "continue"

\* interest yes with a price_range of one space, one second before the timebox: the call goes on
C4_Witness ==
  /\ ret.status = "ok"
  /\ Interest(ret.analysis) = S_yes
  /\ Get(ret.analysis, "price_range", None) = Str(S_blank)
  /\ ret.elapsed_sec = Timebox - 1
  /\ ret.outcome.type = "continue"
  /\ ~state.closed

\* C5: on the first turn that brings elapsed_sec to 90 or more with a record matching none of the
\* dnc/no, later and transfer branches, the outcome is the timeout exit (type dnc, the timeout message,
\* an OUTCOME_DNC event with reason no_clear_interest_within_timebox); a call closed as dnc holds
\* exactly one OUTCOME_DNC event, however many calls follow.
C5_TimeoutExitOnce ==
  [][ /\ (OpenTurnStep /\ state.elapsed_sec < Timebox /\ state'.elapsed_sec >= Timebox
            /\ Interest(ret'.analysis) \notin {S_dnc, S_no, S_later, S_yes, S_maybe})
         => /\ ret'.outcome.type = "dnc"
            /\ ret'.outcome.message = MsgTimeout
            /\ state'.closed /\ state'.outcome = "dnc"
            /\ Len(events') = Len(events) + 3
            /\ events'[Len(events')] =
                 [call_sid |-> CallSid, event_type |-> "OUTCOME_DNC",
                  payload |-> [lead_id |-> LeadRow(leads).id, reason |-> Str(S_timebox_reason)]]
      /\ (state'.closed /\ state'.outcome = "dnc") => CountEvents(events', "OUTCOME_DNC") = 1
      /\ ~state'.closed => CountEvents(events', "OUTCOME_DNC") = 0 ]_vars

\* two turns of 45 s without a clear interest, then a call on the closed call
C5_Witness ==
  /\ ret.status = "closed"
  /\ state.elapsed_sec = Timebox
  /\ Len(state.history) = 2
  /\ \E i \in DOMAIN events : /\ events[i].event_type = "OUTCOME_DNC"
                              /\ events[i].payload.reason = Str(S_timebox_reason)

\* when a turn returns transfer: interest yes or maybe and price_range or timing counted by test(rec, key)
TransferWhen(rec, elapsed, price_set, timing_set) ==
  /\ Interest(rec) \in {S_yes, S_maybe}
  /\ (price_set \/ timing_set \/ elapsed >= Timebox)

\* what a transfer leaves behind
TransferApplied ==
  /\ LeadRow(leads).qualified
  /\ ret.lead.qualified
  /\ CountEvents(events, "OUTCOME_TRANSFER") = 1

\* the replay ["maybe", "370k", "30-45 days"] on the keyword fallback ends with transfer, qualified
MaybeScenario ==
  (~llm_available /\ state.history # <<>> /\ state.history[1].content = U_maybe)
    => /\ state.closed /\ state.outcome = "transfer"
       /\ LeadRow(leads).qualified
       /\ \A i \in DOMAIN state.history : state.history[i].content = <<U_maybe, U_370k, U_30_45_days>>[i]

ExpectedWindow(rec) ==
  IF NonEmpty(rec, "callback_window") THEN rec.callback_window ELSE Str(S_next_business_day)

\* C7: a turn whose interest is later closes the call as callback and adds one Callback row, for the
\* caller's Lead, whose window is the record's callback_window when that is non-empty and
\* "next business day" when it is absent, empty or null; the outcome returned carries the row's
\* window; over any continuation the call has exactly one Callback row, and no other call has any.
C7_CallbackOnce ==
  [][ /\ (OpenTurnStep /\ Interest(ret'.analysis) = S_later)
         => /\ ret'.outcome.type = "callback"
            /\ state'.closed /\ state'.outcome = "callback"
            /\ Len(callbacks') = Len(callbacks) + 1
            /\ callbacks'[Len(callbacks')].window = ExpectedWindow(ret'.analysis)
            /\ callbacks'[Len(callbacks')].lead_id = LeadRow(leads).id
            /\ ret'.outcome.window = callbacks'[Len(callbacks')].window
            /\ ret'.outcome.callback_id = callbacks'[Len(callbacks')].id
      /\ Len(callbacks') = (IF state'.outcome = "callback" THEN 1 ELSE 0) ]_vars

\* later with a null callback_window: one row with the default window, still one after a further call
C7_Witness ==
  /\ ret.status = "closed"
  /\ state.outcome = "callback"
  /\ Len(callbacks) = 1
  /\ callbacks[1].window = Str(S_next_business_day)
  /\ \E i \in DOMAIN events : /\ events[i].event_type = "RAW_LLM"
                              /\ events[i].payload.text.obj = [interest |-> Str(S_later), callback_window |-> None]

\* C8: with the backend unconfigured the utterance "i'm not selling, remove me" is answered by the
\* fallback with interest dnc, the call closes on that turn as dnc with exactly one OUTCOME_DNC event
\* and no Callback row; and no call that ends as dnc has a Callback row.
C8_NotSellingIsDnc ==
  /\ (~llm_available /\ state.history # <<>> /\ state.history[1].content = U_not_selling)
       => /\ Len(state.history) = 1
          /\ events[2].event_type = "RAW_LLM"
          /\ events[2].payload.text.obj.interest = Str(S_dnc)
          /\ state.closed /\ state.outcome = "dnc"
          /\ CountEvents(events, "OUTCOME_DNC") = 1
          /\ callbacks = <<>>
  /\ state.outcome = "dnc" => callbacks = <<>>

\* the replay of that one utterance, closed as dnc
C8_Witness ==
  /\ ~llm_available
  /\ state.history = << [role |-> "user", content |-> U_not_selling] >>
  /\ ret.status = "ok"
  /\ ret.outcome.type = "dnc"
  /\ ret.outcome.message = MsgDnc

\* the value stored for a field after the logged upserts: the last string other than "" passed for it,
\* and the value of the table's row when none was
RECURSIVE LastWritten(_, _, _)
LastWritten(log, key, initial) ==
  IF log = <<>> THEN initial
  ELSE LET last == log[Len(log)] IN
       IF NonEmpty(last, key) THEN last[key]
       ELSE LastWritten(SubSeq(log, 1, Len(log) - 1), key, initial)

\* C3: an upsert_lead on a phone that has a Lead replaces a stored field when the value passed is
\* non-empty, leaves it when the value is "" or None, and leaves the fields not passed; so each stored
\* field is the last non-empty value written for it (350-380k survives "", and becomes 400k).
C3_MergeOnWrite ==
  /\ [][ Len(upserts') = Len(upserts) + 1 =>
           LET fields == upserts'[Len(upserts')] IN
           \A k \in DOMAIN LeadRow(leads) :
             LeadRow(leads')[k] = IF NonEmpty(fields, k) THEN fields[k] ELSE LeadRow(leads)[k] ]_vars
  /\ [](\A k \in LeadFields : LeadRow(leads)[k] = LastWritten(upserts, k, LeadRow(StoreTable)[k]))

\* 350-380k stored, then "" passed, then 400k passed
C3_Witness ==
  /\ Len(upserts) = 2
  /\ Get(upserts[1], "price_range", None) = Empty
  /\ Get(upserts[2], "price_range", None) = Str(S_400k)
  /\ LeadRow(leads).price_range = Str(S_400k)
  /\ LeadRow(leads).interest = Str(S_maybe)

(* ------------------------------------------------------------------ *)
(* The streaming connection                                           *)
(* ------------------------------------------------------------------ *)

\* the _drain_ai_events(final=True) calls started
FinalDrains == Cardinality({i \in DOMAIN drains : drains[i] = "final"})

\* media_stream has returned or raised
HandlerDone == h.pc = "done"

\* C9: once the handler of a connection has ended, every stop frame handed to the bridge
\* has had exactly one final drain, sends that failed included, and exactly one
\* STREAM_CLOSED event has been recorded.
C9_StopDrainsAndClosesOnce ==
  (HandlerDone /\ h.stops > 0) =>
    /\ FinalDrains = h.stops
    /\ CountEvents(events, "STREAM_CLOSED") = 1

\* C10: once the handler of a connection has ended, however it ended, every reasoning
\* session opened during the connection is closed and exactly one STREAM_CLOSED event
\* has been recorded.
C10_EverySessionClosedOnce ==
  HandlerDone =>
    /\ \A i \in DOMAIN sessions : ~sessions[i].open
    /\ CountEvents(events, "STREAM_CLOSED") = 1

(* ------------------------------------------------------------------ *)
(* Backend failures and malformed output                              *)
(* ------------------------------------------------------------------ *)

\* the backend invocation of the latest open turn raised
LastCallRaised == llm_calls # <<>> /\ llm_calls[Len(llm_calls)].raised

\* C11: a turn whose backend invocation raises still returns: it is processed with the
\* all-unknown record and yields continue below the timebox and the timeout exit from 90 s on.
C11_BackendFailureContained ==
  LastCallRaised =>
    /\ ret.status = "ok"
    /\ ret.analysis = UnknownRecord
    /\ ret.outcome.type = IF ret.elapsed_sec >= Timebox THEN "dnc" ELSE "continue"

SevenFields == {"interest", "price_range", "timing", "condition", "owner_status", "callback_window", "notes"}
Vocabulary == {S_yes, S_maybe, S_later, S_no, S_dnc, S_unknown}

\* a record with all seven fields, every value a string, the interest within the vocabulary
WellFormed(rec) ==
  /\ DOMAIN rec = SevenFields
  /\ \A k \in SevenFields : rec[k].t = "str"
  /\ rec.interest.v \in Vocabulary

\* C12: whatever text the backend returned, the turn does not raise and the record it returns
\* as analysis has all seven fields, with an interest of the vocabulary.
C12_RecordAlwaysWellFormed ==
  (llm_calls # <<>> /\ ~LastCallRaised /\ ret.status # "closed") =>
    /\ ret.status = "ok"
    /\ WellFormed(ret.analysis)

(* ------------------------------------------------------------------ *)
(* Tool calls of the streaming bridge                                 *)
(* ------------------------------------------------------------------ *)

\* C13: within one streaming call the transfer side effect (the redirect, with
\* OUTCOME_TRANSFER) and the callback side effect (a Callback row, with OUTCOME_CALLBACK)
\* never both occur.
C13_TransferCallbackExclusive ==
  \/ transfers = <<>> /\ CountEvents(events, "OUTCOME_TRANSFER") = 0
  \/ callbacks = <<>> /\ CountEvents(events, "OUTCOME_CALLBACK") = 0

\* C14: every call of _drain_ai_events terminates, whatever the reasoning session does:
\* a handler that is draining always gets back out of the drain.
C14_DrainTerminates == (h.pc = "drain") ~> (h.pc # "drain")

(* ------------------------------------------------------------------ *)
(* Concurrent upserts                                                 *)
(* ------------------------------------------------------------------ *)

\* C15: whatever the interleaving of upsert_lead calls, the Lead table holds at most one row
\* for each phone number.
C15_OneRowPerPhone ==
  \A i, j \in DOMAIN leads : leads[i].phone = leads[j].phone => i = j

\* the position in the log of the latest STREAM_START, which is where the current bridge was made
BridgeBirth(evs) ==
  IF \E i \in DOMAIN evs : evs[i].event_type = "STREAM_START"
  THEN CHOOSE i \in DOMAIN evs : evs[i].event_type = "STREAM_START"
                                   /\ \A j \in (i + 1)..Len(evs) : evs[j].event_type # "STREAM_START"
  ELSE 0

\* a tool call logged at position i of the log
IsToolCall(evs, i, name) == evs[i].event_type = "AI_TOOL_CALL" /\ evs[i].payload.name = name

\* the current bridge has processed a lead_detect whose interest is one of `interests`
BridgeSaw(evs, interests) ==
  \E i \in (BridgeBirth(evs) + 1)..Len(evs) :
    IsToolCall(evs, i, "lead_detect") /\ Get(evs[i].payload.args, "interest", None) \in interests

\* C16: every invocation of on_transfer happens while a request_transfer with consent true is
\* handled, on a bridge that has processed a lead_detect with interest yes or maybe, and just
\* after OUTCOME_TRANSFER was logged; a request_transfer with consent false, or on a bridge
\* without such a lead_detect, logs no outcome and redirects nothing.
C16_TransferOnlyOnConsentAndQualified ==
  /\ [][ LET n == Len(events) IN
         /\ transfers' # transfers =>
              /\ transfers' = Append(transfers, bridge.call_sid)
              /\ Len(events') = n + 2
              /\ IsToolCall(events', n + 1, "request_transfer")
              /\ events'[n + 1].payload.args.consent
              /\ events'[n + 2].event_type = "OUTCOME_TRANSFER"
              /\ BridgeSaw(events, {Str(S_yes), Str(S_maybe)})
         /\ (Len(events') > n /\ IsToolCall(events', n + 1, "request_transfer")
               /\ ~(events'[n + 1].payload.args.consent /\ BridgeSaw(events, {Str(S_yes), Str(S_maybe)})))
              => (transfers' = transfers /\ Len(events') = n + 1) ]_vars
  /\ [](Len(transfers) <= CountEvents(events, "OUTCOME_TRANSFER"))

\* the call has been redirected after a lead_detect maybe and a request_transfer with consent
C16_Witness ==
  /\ Len(transfers) = 1
  /\ bridge.qualified
  /\ events[Len(events)].event_type = "OUTCOME_TRANSFER"
  /\ BridgeSaw(events, {Str(S_maybe)})

\* the interest of the latest lead_detect the current bridge has processed is one of `interests`
LatestDetect(evs, interests) ==
  \E i \in (BridgeBirth(evs) + 1)..Len(evs) :
    /\ IsToolCall(evs, i, "lead_detect") /\ Get(evs[i].payload.args, "interest", None) \in interests
    /\ \A j \in (i + 1)..Len(evs) : ~IsToolCall(evs, j, "lead_detect")

\* C17, streaming path: once the bridge has processed a lead_detect with interest dnc or no
\* after an earlier yes or maybe, and none since, no step redirects the call or logs
\* OUTCOME_TRANSFER.
C17_NotInterestedWinsOverMaybe ==
  [][ (BridgeSaw(events, {Str(S_yes), Str(S_maybe)}) /\ LatestDetect(events, {Str(S_dnc), Str(S_no)}))
        => /\ transfers' = transfers
           /\ CountEvents(events', "OUTCOME_TRANSFER") = CountEvents(events, "OUTCOME_TRANSFER") ]_vars

(* ------------------------------------------------------------------ *)
(* The record and the stored Lead                                     *)
(* ------------------------------------------------------------------ *)

\* a record whose interest is empty and which supplies a price_range or a timing
OnlyPriceOrTiming(rec) ==
  /\ Get(rec, "interest", None) = Empty
  /\ (NonBlank(rec, "price_range") \/ NonBlank(rec, "timing"))

\* C18: the policy is evaluated against the Lead as merged by this turn: on an open call whose
\* Lead holds interest maybe from an earlier turn, a turn whose record has an empty interest
\* and a non-empty price_range or timing returns transfer.
C18_PolicyOnRefreshedSnapshot ==
  [][ (OpenTurnStep /\ state.history # <<>> /\ LeadRow(leads).interest = Str(S_maybe)
         /\ ret'.status = "ok" /\ OnlyPriceOrTiming(ret'.analysis))
        => ret'.outcome.type = "transfer" ]_vars

(* ------------------------------------------------------------------ *)
(* The state machine of a turn-based call                             *)
(* ------------------------------------------------------------------ *)

\* the OUTCOME_* events of the log
OutcomeEvents(evs) ==
  CountEvents(evs, "OUTCOME_DNC") + CountEvents(evs, "OUTCOME_CALLBACK") + CountEvents(evs, "OUTCOME_TRANSFER")

\* C19: closed holds exactly when the outcome is set, to transfer, callback or dnc; a closed
\* call stays closed with the same outcome; a turn that returns continue leaves the call open
\* and any other outcome closes it; at most one OUTCOME_* event is recorded for the call.
C19_OpenContinueClosed ==
  /\ [](state.closed <=> state.outcome \in {"transfer", "callback", "dnc"})
  /\ [](~state.closed => (state.outcome = "None" /\ OutcomeEvents(events) = 0))
  /\ [](OutcomeEvents(events) <= 1)
  /\ [][ /\ state.closed => (state'.closed /\ state'.outcome = state.outcome)
         /\ (OpenTurnStep /\ ret'.status = "ok") =>
              /\ (ret'.outcome.type = "continue") <=> ~state'.closed
              /\ state'.closed => state'.outcome = ret'.outcome.type ]_vars

\* a call closed as callback on its first turn and called twice more: still one outcome event
C19_Witness ==
  /\ ncalls = 3
  /\ Len(state.history) = 1
  /\ state.closed /\ state.outcome = "callback"
  /\ ret.status = "closed"
  /\ OutcomeEvents(events) = 1

(* ------------------------------------------------------------------ *)
(* Ordering within a streaming connection                             *)
(* ------------------------------------------------------------------ *)

\* C20: frames are read one at a time and only between handlings, reasoning-session events
\* only inside a drain; a polling drain starts in the handling of a frame that has just sent
\* input_audio_buffer.append and then response.create, a final drain in one that has just sent
\* input_audio_buffer.commit; CALL_STOP is logged when a final drain returns, and only then.
C20_StreamOrdering ==
  /\ [][ LET ws == bridge.ai_ws
             stops == CountEvents(events, "CALL_STOP")
             stops1 == CountEvents(events', "CALL_STOP")
         IN
         /\ nframes' # nframes => (h.pc = "receive" /\ nframes' = nframes + 1)
         /\ nai' # nai => (h.pc = "drain" /\ nai' = nai + 1 /\ nframes' = nframes)
         /\ (\E i \in DOMAIN sessions : sessions'[i].sent # sessions[i].sent) =>
              (h.pc = "receive" /\ nframes' = nframes + 1)
         /\ drains' # drains =>
              /\ h.pc = "receive" /\ h'.pc = "drain" /\ nframes' = nframes + 1
              /\ \/ /\ drains' = Append(drains, "poll") /\ ~h'.final
                    /\ sessions'[ws].sent =
                         sessions[ws].sent \o <<"input_audio_buffer.append", "response.create">>
                 \/ /\ drains' = Append(drains, "final") /\ h'.final
                    /\ sessions'[ws].sent = sessions[ws].sent \o <<"input_audio_buffer.commit">>
         /\ stops1 # stops =>
              /\ h.pc = "drain" /\ h.final /\ h'.pc = "receive"
              /\ stops1 = stops + 1
              /\ events'[Len(events')].event_type = "CALL_STOP"
         /\ (h.pc = "drain" /\ h'.pc = "receive") => (h.final <=> stops1 = stops + 1) ]_vars
  /\ [](h.pc = "drain" => (drains # <<>> /\ (h.final <=> drains[Len(drains)] = "final")))

\* a connection whose media frame and then stop frame have been handled to the end
C20_Witness ==
  /\ h.pc = "receive"
  /\ drains = <<"poll", "final">>
  /\ Len(sessions) = 1
  /\ sessions[1].sent = <<"session.update", "input_audio_buffer.create", "input_audio_buffer.append",
                          "response.create", "input_audio_buffer.commit">>
  /\ events[Len(events)].event_type = "CALL_STOP"

(* ------------------------------------------------------------------ *)
(* Configuration, callbacks and faults of a streaming connection      *)
(* ------------------------------------------------------------------ *)

\* C21: on every reasoning session on which anything has been sent, session.update is the
\* first message and occurs once; a session whose configuration could not be sent gets
\* nothing else, the handler being on its way out.
C21_ConfiguredFirstAndOnce ==
  \A i \in DOMAIN sessions :
    LET sent == sessions[i].sent IN
    IF sent = <<>>
    THEN h.pc \in {"finally", "done"} /\ i = Len(sessions)
    ELSE sent[1] = "session.update" /\ \A j \in 2..Len(sent) : sent[j] # "session.update"

\* two sessions opened by two start frames, audio appended on the second
C21_Witness ==
  /\ Len(sessions) = 2
  /\ sessions[1].sent = <<"session.update", "input_audio_buffer.create">>
  /\ sessions[2].sent = <<"session.update", "input_audio_buffer.create", "input_audio_buffer.append",
                          "response.create">>

\* the logged lead_detect tool calls that ask for a callback: interest later, window non-empty
CallbackDetects(evs) ==
  {i \in DOMAIN evs : /\ IsToolCall(evs, i, "lead_detect")
                      /\ Get(evs[i].payload.args, "interest", None) = Str(S_later)
                      /\ Truthy(Get(evs[i].payload.args, "callback_window", None))}

\* C22: in the streaming path the Callback rows, and the OUTCOME_CALLBACK events, are as many
\* as the processed lead_detect tool calls with interest later and a non-empty callback_window;
\* a later without a window adds none and a repeated identical lead_detect adds a row again.
C22_CallbackPerLaterWithWindow ==
  /\ Len(callbacks) = Cardinality(CallbackDetects(events))
  /\ CountEvents(events, "OUTCOME_CALLBACK") = Cardinality(CallbackDetects(events))

\* the same lead_detect processed twice gave two identical rows, a later without window none
C22_Witness ==
  /\ Len(callbacks) = 2
  /\ callbacks[1].window = callbacks[2].window /\ callbacks[1].lead_id = callbacks[2].lead_id
  /\ \E i \in DOMAIN events :
       /\ IsToolCall(events, i, "lead_detect")
       /\ Get(events[i].payload.args, "interest", None) = Str(S_later)
       /\ ~Truthy(Get(events[i].payload.args, "callback_window", None))

\* a step in which receiving or handling a frame, or the drain it awaits, raised: the handler
\* leaves its loop for the finally block other than by a None receive or a cancellation
ExceptionStep ==
  /\ h.pc \in {"receive", "drain"} /\ h'.pc = "finally" /\ h'.inflight = h.inflight
  /\ h.pc = "drain" \/ nframes' # nframes \/ events' # events

ErrorLogged == CountEvents(events, "STREAM_ERROR") > 0

LastToken(evs) ==
  IF \E i \in DOMAIN evs : evs[i].event_type = "RAW_LLM"
  THEN evs[CHOOSE i \in DOMAIN evs : /\ evs[i].event_type = "RAW_LLM"
                                     /\ \A j \in (i + 1)..Len(evs) : evs[j].event_type # "RAW_LLM"
          ].payload.response_id
  ELSE NoResponseId

\* C24: on each open turn the backend gets at most the 6 latest history entries in their
\* order, the last being the current utterance, together with the token the previous turn's
\* invocation returned (none on the first turn); afterwards last_response_id is the token
\* this invocation returned.
C24_WindowAndToken ==
  [][OpenTurnStep =>
       LET call == llm_calls'[Len(llm_calls')]
           n == Len(call.messages)
           hist == state'.history
           turn == events'[Len(events) + 1]
       IN
       /\ Len(llm_calls') = Len(llm_calls) + 1
       /\ n = IF Len(hist) <= 6 THEN Len(hist) ELSE 6
       /\ \A k \in 1..n : call.messages[k] = hist[Len(hist) - n + k]
       /\ turn.event_type = "TURN"
       /\ call.messages[n] = [role |-> "user", content |-> turn.payload.text]
       /\ call.previous_response_id = LastToken(events)
       /\ Len(llm_calls) = 0 => call.previous_response_id = NoResponseId
       /\ state'.last_response_id = LastToken(events')]_vars

\* the seventh open turn of a configured backend: six of the seven entries went out, with the
\* sixth turn's token
C24_Witness ==
  /\ llm_available
  /\ Len(state.history) = 7 /\ Len(llm_calls) = 7
  /\ Len(llm_calls[7].messages) = 6
  /\ llm_calls[7].messages[1] = state.history[2]
  /\ llm_calls[7].previous_response_id = ResponseId(6)
  /\ state.last_response_id = ResponseId(7)
  /\ state.history[6] # state.history[7]

\* the lower-cased text holds one of the keywords
HasAny(text, keywords) == \E x \in keywords : Contains(Lower(text), x)

\* the latest message of a list, "" for the empty list
Latest(messages) == IF messages = <<>> THEN <<>> ELSE messages[Len(messages)].content

\* C25: with the backend unconfigured call_llm_text returns no token and a record fixed by
\* the latest message alone, by the first rule that matches in the order dnc, later, maybe,
\* unknown: a dnc keyword wins over later and yes/maybe keywords, a later keyword over
\* yes/maybe keywords.
C25_FallbackPriority ==
  \A i \in DOMAIN llm_calls :
    LET call == llm_calls[i]
        latest == Latest(call.messages)
        dnc == HasAny(latest, DncKeywords)
        later == HasAny(latest, LaterKeywords)
        maybe == HasAny(latest, MaybeKeywords)
        interest == call.output_text.obj.interest.v
    IN
    /\ ~call.raised /\ call.response_id = NoResponseId
    /\ call.output_text.kind = "object"
    /\ call.output_text =
         call_llm_text(FALSE, <<[role |-> "user", content |-> latest]>>, NoResponseId,
                       [output_text |-> BackendRaises, id |-> NoResponseId]).output_text
    /\ dnc => interest = S_dnc
    /\ ~dnc /\ later => interest = S_later
    /\ ~dnc /\ ~later /\ maybe => interest = S_maybe
    /\ ~dnc /\ ~later /\ ~maybe => interest = S_unknown

\* "REMOVE me later" after "Yes", a token passed in: dnc, and no token back
C25_Witness ==
  /\ ~llm_available /\ Len(llm_calls) = 1
  /\ Len(llm_calls[1].messages) = 2
  /\ HasAny(llm_calls[1].messages[1].content, MaybeKeywords)
  /\ HasAny(Latest(llm_calls[1].messages), DncKeywords)
  /\ HasAny(Latest(llm_calls[1].messages), LaterKeywords)
  /\ llm_calls[1].previous_response_id = ResponseId(1)
  /\ llm_calls[1].output_text = FallbackDnc
  /\ llm_calls[1].response_id = NoResponseId

(* ------------------------------------------------------------------ *)
(* Where the side effects of an outcome are applied                   *)
(* ------------------------------------------------------------------ *)

\* the store as _decide_and_apply finds it in the open turn just taken: the log up to the
\* turn's RAW_LLM event, the Lead merged with the record parsed from that event
PolicyEntry ==
  update_lead([leads |-> leads, callbacks |-> callbacks, events |-> SubSeq(events', 1, Len(events) + 2)],
              state.phone, ParseAnalysis(events'[Len(events) + 2].payload.text))

\* what _decide_and_apply hands back in that turn
PolicyExit ==
  decide_and_apply(PolicyEntry, state', ParseAnalysis(events'[Len(events) + 2].payload.text),
                   FirstByPhone(PolicyEntry.leads, state.phone))

\* C26: evaluating the decision policy in a turn leaves the Lead Store, the callbacks and the
\* event log as it found them and changes no ConversationState field; what the turn writes
\* for its outcome is written after the policy has returned.
C26_PolicyIsPure ==
  [][OpenTurnStep /\ ret'.status = "ok" =>
       /\ PolicyExit.db = [leads |-> leads', callbacks |-> callbacks', events |-> events']
       /\ PolicyExit.db = PolicyEntry]_vars

(* ------------------------------------------------------------------ *)
(* Frames before the start frame                                      *)
(* ------------------------------------------------------------------ *)

CallEvents(evs) == CountEvents(evs, "CALL_START") + CountEvents(evs, "CALL_STOP")

\* C27: while no start frame has been received nothing has been sent to any reasoning session
\* and no CALL_* event is logged; a frame taken in that condition that is not a start frame is
\* dropped without a send, a drain, a Lead or Callback write or a CALL_* event; and a start
\* frame is forwarded (CALL_START, input_audio_buffer.create) only on a configured session.
C27_NothingForwardedBeforeStart ==
  /\ [](~bridge.exists => sessions = <<>> /\ drains = <<>> /\ CallEvents(events) = 0)
  /\ [][nframes' # nframes /\ ~bridge.exists /\ ~bridge'.exists =>
          /\ sessions' = sessions /\ drains' = drains /\ h'.pc # "drain"
          /\ leads' = leads /\ callbacks' = callbacks
          /\ CallEvents(events') = CallEvents(events)]_vars
  /\ [][CountEvents(events', "CALL_START") # CountEvents(events, "CALL_START") =>
          /\ nframes' # nframes /\ bridge'.exists /\ bridge'.ai_ws = Len(sessions')
          /\ sessions'[bridge'.ai_ws].sent[1] = "session.update"]_vars
  /\ [](\A i \in DOMAIN sessions : \A j \in DOMAIN sessions[i].sent :
          sessions[i].sent[j] = "input_audio_buffer.create" => j = 2 /\ sessions[i].sent[1] = "session.update")

\* three frames taken, the only forwarded one a start frame: its session was configured, then
\* given the input buffer
C27_Witness ==
  /\ nframes = 3 /\ h.pc = "receive" /\ bridge.exists
  /\ Len(events) = 2 /\ events[1].event_type = "STREAM_START" /\ events[2].event_type = "CALL_START"
  /\ Len(sessions) = 1 /\ sessions[1].sent = <<"session.update", "input_audio_buffer.create">>
  /\ drains = <<>>

(* ------------------------------------------------------------------ *)
(* The qualified flags                                                *)
(* ------------------------------------------------------------------ *)

UnparseableTurn ==
  /\ OpenTurnStep /\ ret'.status = "ok"
  /\ events'[Len(events) + 2].event_type = "RAW_LLM"
  /\ events'[Len(events) + 2].payload.text.kind # "object"

\* C29: a turn whose backend output fails to parse leaves the caller's Lead with interest and
\* owner_status "unknown", whatever they were, and with price_range, timing, condition and
\* qualified as they were.
C29_UnparseableOverwritesInterest ==
  [][UnparseableTurn =>
       LET old == LeadRow(leads)
           new == LeadRow(leads')
       IN
       /\ Len(leads') = Len(leads)
       /\ new.interest = Str(S_unknown) /\ new.owner_status = Str(S_unknown)
       /\ new.price_range = old.price_range /\ new.timing = old.timing
       /\ new.condition = old.condition /\ new.qualified = old.qualified
       /\ ret'.analysis = [interest |-> Str(S_unknown), price_range |-> Empty, timing |-> Empty,
                           condition |-> Empty, owner_status |-> Str(S_unknown),
                           callback_window |-> Empty, notes |-> Empty]]_vars

\* the Lead that held maybe and 350-380k before the call holds unknown and 350-380k after
\* one unparseable turn
C29_Witness ==
  /\ ncalls = 1 /\ llm_available /\ ret.status = "ok"
  /\ Len(events) >= 2 /\ events[2].event_type = "RAW_LLM" /\ events[2].payload.text.kind = "invalid"
  /\ Len(leads) = 2
  /\ LeadRow(leads).interest = Str(S_unknown)
  /\ LeadRow(leads).owner_status = Str(S_unknown)
  /\ LeadRow(leads).price_range = Str(S_350_380k)
  /\ LeadRow(leads).qualified

====
